---- MODULE Spec2Model ----
(***************************************************************************)
(* Model of vinews.modules.vnexpress.search.VinewsVnExpressSearch:         *)
(* construction and the timeout setter, the blocking search, the           *)
(* non-blocking async_search with its per-URL tasks bounded by an          *)
(* asyncio.Semaphore, and the two homepage fetches.                        *)
(*                                                                         *)
(* The HTTP client and the two parsers are external collaborators: every   *)
(* response and every parse is an input drawn from its possible outcomes.  *)
(* A reference card is identified by its position in the parsed page, and  *)
(* an Article by the position of the card it was parsed from.              *)
(***************************************************************************)
EXTENDS Integers, Sequences, FiniteSets, TLC

\* ---- bounds of the model ----
NumCalls == 2        \* calls that may overlap on the one instance
MaxCards == 2        \* reference cards a parsed page may yield
MaxLimit == 1        \* largest explicit limit= keyword
MaxCap == 2          \* largest explicit semaphore_limit= keyword
MaxTimeout == 1      \* largest explicit timeout value

\* ---- program constants ----
DefaultTimeout == 10
DefaultSemaphoreLimit == 5
DefaultLimit == 5

None == 0            \* Python None in a list of Optional[Article]

\* An optional argument is <<>> when it was not passed and <<v>> when it was.
Optional(S) == {<<>>} \cup {<<v>> : v \in S}

Calls == 1..NumCalls
TimeoutArgs == Optional(-1..MaxTimeout)
SemaphoreArgs == Optional(-1..MaxCap)
LimitArgs == Optional(-1..MaxLimit)
FetchOutcomes == {"ok", "error"}
ParseOutcomes == {"ok", "error"}
CardCounts == 0..MaxCards

VARIABLES engine, _timeout, _semaphore_limit, sem_value, configError, calls

vars == <<engine, _timeout, _semaphore_limit, sem_value, configError, calls>>

Min(a, b) == IF a <= b THEN a ELSE b
Max(a, b) == IF a >= b THEN a ELSE b

\* [1, 2, ..., n]
Iota(n) == [i \in 1..n |-> i]

\* a call slot on which no method has been invoked yet
IdleCall ==
    [kind |-> "idle", pc |-> "idle", advanced |-> FALSE, limit |-> 0,
     cards |-> <<>>, urls |-> <<>>, st |-> <<>>, reqs |-> <<>>, resp |-> <<>>,
     idx |-> 0, completed |-> <<>>,
     articles |-> <<>>, results |-> <<>>, total_results |-> 0,
     rtype |-> "none", error |-> "none", page |-> "none"]

\* ---- __init__ and the timeout setter ----

\* timeout: int = 10
TimeoutOf(t) == IF t = <<>> THEN DefaultTimeout ELSE t[1]

\* a check that lets zero through
TimeoutRejectedNegative(timeout) == timeout < 0

\* line 13: if timeout <= 0: raise ValueError
TimeoutRejected(timeout) == timeout <= 0

\* line 43: if value <= 0: raise ValueError
SetterRejected(value) == value <= 0

\* line 17: "semaphore_limit" in kwargs and (... or kwargs["semaphore_limit"] <= 0)
SemaphoreLimitRejected(sl) == sl # <<>> /\ sl[1] <= 0

\* line 20: kwargs.get("semaphore_limit", 5)
SemaphoreLimitOf(sl) == IF sl = <<>> THEN DefaultSemaphoreLimit ELSE sl[1]

Init ==
    /\ engine = "none"
    /\ _timeout = 0
    /\ _semaphore_limit = 0
    /\ sem_value = 0
    /\ configError = FALSE
    /\ calls = [c \in Calls |-> IdleCall]

Construct(t, sl) ==
    /\ engine = "none"
    /\ IF TimeoutRejected(TimeoutOf(t)) \/ SemaphoreLimitRejected(sl)
       THEN /\ configError' = TRUE
            /\ UNCHANGED <<engine, _timeout, _semaphore_limit, sem_value>>
       ELSE /\ configError' = FALSE
            /\ engine' = "ready"
            /\ _timeout' = TimeoutOf(t)
            /\ _semaphore_limit' = SemaphoreLimitOf(sl)
            /\ sem_value' = SemaphoreLimitOf(sl)
    /\ UNCHANGED calls

SetTimeout(value) ==
    /\ engine = "ready"
    /\ IF SetterRejected(value)
       THEN /\ configError' = TRUE
            /\ UNCHANGED _timeout
       ELSE /\ configError' = FALSE
            /\ _timeout' = value
    /\ UNCHANGED <<engine, _semaphore_limit, sem_value, calls>>

\* ---- helpers shared by the four public methods ----

\* urls[:limit], with Python's meaning of a negative stop
Slice(urls, limit) ==
    IF limit >= 0
    THEN SubSeq(urls, 1, Min(limit, Len(urls)))
    ELSE SubSeq(urls, 1, Max(Len(urls) + limit, 0))

\* kwargs.get("limit", 5)
LimitOf(kw) == IF kw = <<>> THEN DefaultLimit ELSE kw[1]

\* a primary page whose parser error is swallowed
PrimaryErrorFetchOnly(resp, parse) ==
    IF resp = "error" THEN "TransportError" ELSE "none"

\* client.get(...); raise_for_status(); parse_...(response.text) on the
\* primary page: the error that leaves the method, or "none"
PrimaryError(resp, parse) ==
    IF resp = "error" THEN "TransportError"
    ELSE IF parse = "error" THEN "StructuralParseError"
    ELSE "none"

\* what happened to the primary page: the response, then the page parser
PageStatus(resp, parse) ==
    IF resp = "error" THEN "fetch_failed"
    ELSE IF parse = "error" THEN "parse_failed"
    ELSE "ok"

\* per-URL states of the cards of a parsed page, the first m being queued
InitialStates(n, m) == [i \in 1..n |-> IF i <= m THEN "Pending" ELSE "Unqueued"]

Raised(call, err) == [call EXCEPT !.pc = "raised", !.error = err]

Returned(call, rtype, results, total) ==
    [call EXCEPT !.pc = "returned", !.rtype = rtype, !.results = results,
                 !.total_results = total]

\* a basic result cut to the limit
BasicResultsSliced(news_cards, limit) == Slice(news_cards, limit)

\* results=news_cards of SearchResults
BasicResults(news_cards, limit) == news_cards

\* ---- search (blocking) ----

\* lines 116-129: limit, params, search_url, client.get(search_url)
search_begin(c, advanced, kw) ==
    /\ engine = "ready"
    /\ calls[c].kind = "idle"
    /\ calls' = [calls EXCEPT ![c] =
                    [@ EXCEPT !.kind = "search", !.pc = "primary",
                              !.advanced = advanced, !.limit = LimitOf(kw)]]
    /\ UNCHANGED <<engine, _timeout, _semaphore_limit, sem_value, configError>>

\* line 154: total_results=len(articles)
SyncTotalResults(articles) == Len(articles)

\* the exception that leaves the for loop for one article, or "none":
\* lines 140-142 are outside the try, lines 144-147 catch Exception
SyncArticleError(fetch, parse) ==
    IF fetch = "error" THEN "TransportError" ELSE "none"

\* the state an article URL of the for loop ends in
SyncArticleState(fetch, parse) ==
    IF fetch = "error" THEN "FetchFailed"
    ELSE IF parse = "error" THEN "ParseFailed"
    ELSE "ParseSucceeded"

\* a loop that walks urls[:limit] from its end
SyncLoopReversed(call, i) ==
    IF i <= Len(call.urls)
    THEN [call EXCEPT !.pc = "articles", !.idx = i,
                      !.st[call.urls[Len(call.urls) + 1 - i]] = "Fetching",
                      !.reqs[call.urls[Len(call.urls) + 1 - i]] = @ + 1]
    ELSE Returned(call, "AdvancedSearchResults", call.articles,
                  Len(call.articles))

\* the for loop of lines 139-147 reaches position i: either the request for
\* urls[i] goes out, or the loop is over and lines 149-156 return
SyncLoop(call, i) ==
    IF i <= Len(call.urls)
    THEN [call EXCEPT !.pc = "articles", !.idx = i,
                      !.st[call.urls[i]] = "Fetching",
                      !.reqs[call.urls[i]] = @ + 1]
    ELSE Returned(call, "AdvancedSearchResults", call.articles,
                  SyncTotalResults(call.articles))

\* lines 129-139: the search page arrives, is parsed, and either the basic
\* result is returned or the loop over urls[:limit] starts
search_primary(c, resp, parse, n) ==
    /\ calls[c].kind = "search"
    /\ calls[c].pc = "primary"
    /\ LET call == [calls[c] EXCEPT !.page = PageStatus(resp, parse)]
           news_cards == Iota(n)
           urls == Slice(news_cards, call.limit)
       IN calls' = [calls EXCEPT ![c] =
            IF PrimaryError(resp, parse) # "none"
            THEN Raised(call, PrimaryError(resp, parse))
            ELSE IF call.advanced
            THEN SyncLoop([call EXCEPT !.cards = news_cards, !.urls = urls,
                                       !.st = InitialStates(n, Len(urls)),
                                       !.reqs = [i \in 1..n |-> 0],
                                       !.resp = [i \in 1..n |-> "none"]], 1)
            ELSE Returned([call EXCEPT !.cards = news_cards], "SearchResults",
                          BasicResults(news_cards, call.limit),
                          Len(BasicResults(news_cards, call.limit)))]
    /\ UNCHANGED <<engine, _timeout, _semaphore_limit, sem_value, configError>>

\* lines 141-147 for the article in flight, then the next iteration
search_article(c, fetch, parse) ==
    /\ calls[c].kind = "search"
    /\ calls[c].pc = "articles"
    /\ LET call == calls[c]
           url == call.urls[call.idx]
           seen == [call EXCEPT !.st[url] = SyncArticleState(fetch, parse),
                                !.resp[url] = fetch,
                                !.articles =
                                    IF SyncArticleState(fetch, parse) = "ParseSucceeded"
                                    THEN Append(@, url) ELSE @]
       IN calls' = [calls EXCEPT ![c] =
            IF SyncArticleError(fetch, parse) # "none"
            THEN Raised(seen, SyncArticleError(fetch, parse))
            ELSE SyncLoop(seen, call.idx + 1)]
    /\ UNCHANGED <<engine, _timeout, _semaphore_limit, sem_value, configError>>

\* ---- async_search and its per-URL tasks ----

\* lines 248-261: limit, params, search_url, await client.get(search_url)
async_search_begin(c, advanced, kw) ==
    /\ engine = "ready"
    /\ calls[c].kind = "idle"
    /\ calls' = [calls EXCEPT ![c] =
                    [@ EXCEPT !.kind = "async_search", !.pc = "primary",
                              !.advanced = advanced, !.limit = LimitOf(kw)]]
    /\ UNCHANGED <<engine, _timeout, _semaphore_limit, sem_value, configError>>

\* lines 261-272: the search page arrives and is parsed; the basic result is
\* returned, or one task per URL of urls[:limit] is created and gathered
async_search_primary(c, resp, parse, n) ==
    /\ calls[c].kind = "async_search"
    /\ calls[c].pc = "primary"
    /\ LET call == [calls[c] EXCEPT !.page = PageStatus(resp, parse)]
           news_cards == Iota(n)
           urls == Slice(news_cards, call.limit)
       IN calls' = [calls EXCEPT ![c] =
            IF PrimaryError(resp, parse) # "none"
            THEN Raised(call, PrimaryError(resp, parse))
            ELSE IF call.advanced
            THEN [call EXCEPT !.pc = "gather", !.cards = news_cards,
                              !.urls = urls,
                              !.st = InitialStates(n, Len(urls)),
                              !.reqs = [i \in 1..n |-> 0],
                              !.resp = [i \in 1..n |-> "none"]]
            ELSE Returned([call EXCEPT !.cards = news_cards], "SearchResults",
                          BasicResults(news_cards, call.limit),
                          Len(BasicResults(news_cards, call.limit)))]
    /\ UNCHANGED <<engine, _timeout, _semaphore_limit, sem_value, configError>>

\* a semaphore that keeps its last slot back
SemaphoreFreeOffByOne(value) == value > 1

\* a semaphore that never blocks
SemaphoreFreeNoCap(value) == TRUE

\* asyncio.Semaphore.acquire returns without waiting for a release
SemaphoreFree(value) == value > 0

\* lines 168-170: a task enters the semaphore and sends its request
task_acquire(c, i) ==
    /\ calls[c].kind = "async_search"
    /\ i \in 1..Len(calls[c].urls)
    /\ calls[c].st[calls[c].urls[i]] = "Pending"
    /\ SemaphoreFree(sem_value)
    /\ sem_value' = sem_value - 1
    /\ calls' = [calls EXCEPT ![c].st[calls[c].urls[i]] = "Fetching",
                              ![c].reqs[calls[c].urls[i]] = @ + 1]
    /\ UNCHANGED <<engine, _timeout, _semaphore_limit, configError>>

\* a task whose parser exception is not caught
AsyncTaskErrorUncaught(fetch, parse) ==
    IF fetch = "error" THEN "TransportError"
    ELSE IF parse = "error" THEN "StructuralParseError"
    ELSE "none"

\* the exception that leaves _async_fetch_and_parse, or "none": lines
\* 170-171 are outside the try, lines 172-175 catch Exception and pass
AsyncTaskError(fetch, parse) ==
    IF fetch = "error" THEN "TransportError" ELSE "none"

\* a task that takes a failed fetch for a failed parse
AsyncTaskStateMisclassified(fetch, parse) ==
    IF fetch = "ok" /\ parse = "ok" THEN "ParseSucceeded" ELSE "ParseFailed"

\* a task whose failed fetch is queued again
AsyncTaskStateRetry(fetch, parse) ==
    IF fetch = "error" THEN "Pending"
    ELSE IF parse = "error" THEN "ParseFailed"
    ELSE "ParseSucceeded"

\* the state the URL of a task ends in
AsyncTaskState(fetch, parse) ==
    IF fetch = "error" THEN "FetchFailed"
    ELSE IF parse = "error" THEN "ParseFailed"
    ELSE "ParseSucceeded"

\* a slot that is given back only when the task ends without an exception
SemaphoreReleaseOnSuccess(value, fetch, parse) ==
    IF fetch = "error" THEN value ELSE value + 1

\* line 168: leaving `async with self._semaphore` releases the slot, on a
\* return and on an exception alike
SemaphoreRelease(value, fetch, parse) == value + 1

\* lines 170-175: the response arrives, the page is parsed, the semaphore is
\* left; the first exception of a task ends the gather the caller awaits
task_finish(c, i, fetch, parse) ==
    /\ calls[c].kind = "async_search"
    /\ i \in 1..Len(calls[c].urls)
    /\ calls[c].st[calls[c].urls[i]] = "Fetching"
    /\ sem_value' = SemaphoreRelease(sem_value, fetch, parse)
    /\ LET call == calls[c]
           done == [call EXCEPT !.st[call.urls[i]] = AsyncTaskState(fetch, parse),
                                !.resp[call.urls[i]] = fetch,
                                !.completed = Append(@, call.urls[i])]
       IN calls' = [calls EXCEPT ![c] =
            IF AsyncTaskError(fetch, parse) # "none" /\ call.pc = "gather"
            THEN Raised(done, AsyncTaskError(fetch, parse))
            ELSE done]
    /\ UNCHANGED <<engine, _timeout, _semaphore_limit, configError>>

\* the value a finished task hands to gather: its Article or None
TaskResult(call, i) ==
    IF call.st[call.urls[i]] = "ParseSucceeded" THEN call.urls[i] ELSE None

\* the results in the order in which the tasks ended
GatherResultsAsCompleted(call) ==
    [k \in 1..Len(call.completed) |->
        IF call.st[call.completed[k]] = "ParseSucceeded"
        THEN call.completed[k] ELSE None]

\* line 272: asyncio.gather(*tasks) yields the results in the order of the
\* tasks passed to it, whatever the order they ended in
GatherResults(call) == [i \in 1..Len(call.urls) |-> TaskResult(call, i)]

\* no filtering of the gathered list
FilterNoneKeepAll(articles) == articles

\* line 274: [article for article in articles if article is not None]
FilterNone(articles) == SelectSeq(articles, LAMBDA a : a # None)

\* the count after filtering
AsyncTotalResultsFiltered(articles, articles_filtered) == Len(articles_filtered)

\* line 281: total_results=len(articles)
AsyncTotalResults(articles, articles_filtered) == Len(articles)

\* lines 272-283: every task has finished, gather yields their results in
\* the order of the tasks, and the advanced result is returned
async_search_gather(c) ==
    /\ calls[c].kind = "async_search"
    /\ calls[c].pc = "gather"
    /\ \A i \in 1..Len(calls[c].urls) :
          calls[c].st[calls[c].urls[i]] \in {"ParseSucceeded", "ParseFailed"}
    /\ LET call == calls[c]
           articles == GatherResults(call)
           articles_filtered == FilterNone(articles)
       IN calls' = [calls EXCEPT ![c] =
            Returned([call EXCEPT !.articles = articles], "AdvancedSearchResults",
                     articles_filtered,
                     AsyncTotalResults(articles, articles_filtered))]
    /\ UNCHANGED <<engine, _timeout, _semaphore_limit, sem_value, configError>>

\* ---- fetch_homepage and async_fetch_homepage ----

\* lines 304-305: client.get(self._homepage_url)
fetch_homepage_begin(c) ==
    /\ engine = "ready"
    /\ calls[c].kind = "idle"
    /\ calls' = [calls EXCEPT ![c] =
                    [@ EXCEPT !.kind = "fetch_homepage", !.pc = "primary"]]
    /\ UNCHANGED <<engine, _timeout, _semaphore_limit, sem_value, configError>>

\* lines 305-308: raise_for_status and parse_homepage
fetch_homepage_primary(c, resp, parse, n) ==
    /\ calls[c].kind = "fetch_homepage"
    /\ calls[c].pc = "primary"
    /\ calls' = [calls EXCEPT ![c] =
            IF PrimaryError(resp, parse) # "none"
            THEN Raised([@ EXCEPT !.page = PageStatus(resp, parse)],
                        PrimaryError(resp, parse))
            ELSE Returned([@ EXCEPT !.page = PageStatus(resp, parse),
                                    !.cards = Iota(n)], "Homepage", Iota(n), n)]
    /\ UNCHANGED <<engine, _timeout, _semaphore_limit, sem_value, configError>>

\* lines 320-321: await client.get(self._homepage_url)
async_fetch_homepage_begin(c) ==
    /\ engine = "ready"
    /\ calls[c].kind = "idle"
    /\ calls' = [calls EXCEPT ![c] =
                    [@ EXCEPT !.kind = "async_fetch_homepage", !.pc = "primary"]]
    /\ UNCHANGED <<engine, _timeout, _semaphore_limit, sem_value, configError>>

\* lines 321-324: raise_for_status and parse_homepage
async_fetch_homepage_primary(c, resp, parse, n) ==
    /\ calls[c].kind = "async_fetch_homepage"
    /\ calls[c].pc = "primary"
    /\ calls' = [calls EXCEPT ![c] =
            IF PrimaryError(resp, parse) # "none"
            THEN Raised([@ EXCEPT !.page = PageStatus(resp, parse)],
                        PrimaryError(resp, parse))
            ELSE Returned([@ EXCEPT !.page = PageStatus(resp, parse),
                                    !.cards = Iota(n)], "Homepage", Iota(n), n)]
    /\ UNCHANGED <<engine, _timeout, _semaphore_limit, sem_value, configError>>

Next ==
    \/ \E t \in TimeoutArgs, sl \in SemaphoreArgs : Construct(t, sl)
    \/ \E v \in -1..MaxTimeout : SetTimeout(v)
    \/ \E c \in Calls, adv \in BOOLEAN, kw \in LimitArgs : search_begin(c, adv, kw)
    \/ \E c \in Calls, resp \in FetchOutcomes, parse \in ParseOutcomes, n \in CardCounts :
          search_primary(c, resp, parse, n)
    \/ \E c \in Calls, fetch \in FetchOutcomes, parse \in ParseOutcomes :
          search_article(c, fetch, parse)
    \/ \E c \in Calls, adv \in BOOLEAN, kw \in LimitArgs : async_search_begin(c, adv, kw)
    \/ \E c \in Calls, resp \in FetchOutcomes, parse \in ParseOutcomes, n \in CardCounts :
          async_search_primary(c, resp, parse, n)
    \/ \E c \in Calls, i \in 1..MaxCards : task_acquire(c, i)
    \/ \E c \in Calls, i \in 1..MaxCards, fetch \in FetchOutcomes, parse \in ParseOutcomes :
          task_finish(c, i, fetch, parse)
    \/ \E c \in Calls : async_search_gather(c)
    \/ \E c \in Calls : fetch_homepage_begin(c)
    \/ \E c \in Calls, resp \in FetchOutcomes, parse \in ParseOutcomes, n \in CardCounts :
          fetch_homepage_primary(c, resp, parse, n)
    \/ \E c \in Calls : async_fetch_homepage_begin(c)
    \/ \E c \in Calls, resp \in FetchOutcomes, parse \in ParseOutcomes, n \in CardCounts :
          async_fetch_homepage_primary(c, resp, parse, n)

Spec == Init /\ [][Next]_vars

\* The event loop runs every task that can run, and every HTTP request that
\* was sent ends, by a response, an error or the client's timeout.
Fairness ==
    \A c \in Calls :
        /\ WF_vars(\E resp \in FetchOutcomes, parse \in ParseOutcomes, n \in CardCounts :
                      async_search_primary(c, resp, parse, n))
        /\ WF_vars(async_search_gather(c))
        /\ \A i \in 1..MaxCards :
              /\ WF_vars(task_acquire(c, i))
              /\ WF_vars(\E fetch \in FetchOutcomes, parse \in ParseOutcomes :
                            task_finish(c, i, fetch, parse))

\* The batch engine on its own: construction, async_search and its tasks.
\* The other methods and the setter touch neither the semaphore nor a task.
BatchNext ==
    \/ \E t \in TimeoutArgs, sl \in SemaphoreArgs : Construct(t, sl)
    \/ \E c \in Calls, adv \in BOOLEAN, kw \in LimitArgs : async_search_begin(c, adv, kw)
    \/ \E c \in Calls, resp \in FetchOutcomes, parse \in ParseOutcomes, n \in CardCounts :
          async_search_primary(c, resp, parse, n)
    \/ \E c \in Calls, i \in 1..MaxCards : task_acquire(c, i)
    \/ \E c \in Calls, i \in 1..MaxCards, fetch \in FetchOutcomes, parse \in ParseOutcomes :
          task_finish(c, i, fetch, parse)
    \/ \E c \in Calls : async_search_gather(c)

FairSpec == Init /\ [][BatchNext]_vars /\ Fairness

\* every method, under the same fairness
FairFullSpec == Spec /\ Fairness

\* ---- properties ----

AdvancedCalls == {c \in Calls : calls[c].kind \in {"search", "async_search"} /\ calls[c].advanced}

\* the card positions of a call whose URL is in state s
InState(c, s) == {u \in DOMAIN calls[c].st : calls[c].st[u] = s}

\* the card positions of a call for which an article request was sent
Attempted(c) == {u \in DOMAIN calls[c].reqs : calls[c].reqs[u] >= 1}

\* the article requests of the per-URL tasks that are in flight
InFlight ==
    {<<c, u>> \in Calls \X (1..MaxCards) :
        calls[c].kind = "async_search" /\ u \in InState(c, "Fetching")}

\* C1: the number of article requests of the per-URL tasks in flight never
\* exceeds the semaphore limit the engine was constructed with, however many
\* URLs are queued and however many async_search batches overlap.
C1_InFlightAtMostCap ==
    engine = "ready" => Cardinality(InFlight) <= _semaphore_limit

\* two overlapping batches, the cap reached, and a URL still waiting for a slot
C1_Witness ==
    /\ Cardinality(InFlight) = _semaphore_limit
    /\ \A c \in Calls : \E u \in 1..MaxCards : <<c, u>> \in InFlight
    /\ \E c \in Calls : InState(c, "Pending") # {}

\* C2: in an advanced search a failing article fetch is dropped and no
\* exception reaches the caller.
C2_FetchFailureDropped ==
    \A c \in AdvancedCalls : InState(c, "FetchFailed") # {} => calls[c].pc # "raised"
Range(seq) == {seq[i] : i \in DOMAIN seq}

\* C3: in an advanced search a failing article parse never raises: after a
\* good search page the only exception that reaches the caller is a failed
\* article fetch; the blocking loop goes on to the next URL after a failed
\* parse; and a call that returns has processed every queued URL, returns
\* every successfully parsed article and none that failed to parse.
C3_ParseFailureDropped ==
    \A c \in AdvancedCalls :
        /\ (calls[c].pc = "raised" /\ calls[c].page = "ok") =>
              (calls[c].error = "TransportError" /\ InState(c, "FetchFailed") # {})
        /\ calls[c].kind = "search" =>
              \A i \in 1..(Len(calls[c].urls) - 1) :
                  calls[c].st[calls[c].urls[i]] = "ParseFailed" =>
                      calls[c].st[calls[c].urls[i + 1]] # "Pending"
        /\ calls[c].pc = "returned" =>
              /\ \A u \in Range(calls[c].urls) :
                    calls[c].st[u] \in {"ParseSucceeded", "ParseFailed"}
              /\ InState(c, "ParseFailed") \cap Range(calls[c].results) = {}
              /\ InState(c, "ParseSucceeded") \subseteq Range(calls[c].results)

\* both variants returned although an article failed to parse, with the
\* sibling article in the result
C3_Witness ==
    \E c, d \in Calls :
        /\ calls[c].kind = "search" /\ calls[d].kind = "async_search"
        /\ \A e \in {c, d} :
              /\ calls[e].pc = "returned"
              /\ InState(e, "ParseFailed") # {}
              /\ calls[e].results # <<>>

\* the call is over and none of its tasks is still waiting or in flight
Settled(c) ==
    /\ calls[c].pc \in {"returned", "raised"}
    /\ calls[c].kind = "async_search" =>
          InState(c, "Pending") \cup InState(c, "Fetching") = {}

\* C4: for limit >= 0 an advanced search attempts exactly the first
\* min(limit, n) URLs of the n the search page yields, and returns at most
\* that many results.
C4_ExactlyPrefixAttempted ==
    \A c \in AdvancedCalls :
        (calls[c].page = "ok" /\ calls[c].limit >= 0 /\ Settled(c)) =>
            /\ Attempted(c) = 1..Min(calls[c].limit, Len(calls[c].cards))
            /\ Len(calls[c].results) <= Min(calls[c].limit, Len(calls[c].cards))

\* C5: a non-positive timeout or semaphore_limit makes construction fail
\* and creates no engine, a non-positive value makes the timeout setter fail
\* and leaves the timeout as it was, and a constructed engine always has a
\* positive timeout and a positive semaphore limit.
C5_ConfigValidated ==
    [][ /\ \A t \in TimeoutArgs, sl \in SemaphoreArgs :
              (Construct(t, sl) /\ ((t # <<>> /\ t[1] <= 0) \/ (sl # <<>> /\ sl[1] <= 0))) =>
                  (configError' /\ engine' = "none")
        /\ \A v \in -1..MaxTimeout :
              (SetTimeout(v) /\ v <= 0) => (configError' /\ _timeout' = _timeout)
        /\ engine' = "ready" => (_timeout' > 0 /\ _semaphore_limit' > 0)
      ]_vars

\* the setter rejected a value on a constructed engine
C5_Witness == engine = "ready" /\ configError /\ _timeout > 0

\* C6: when the primary page cannot be fetched or parsed, the method raises
\* that error, returns no record and sends no article request.
C6_PrimaryFailurePropagates ==
    \A c \in Calls :
        calls[c].page \in {"fetch_failed", "parse_failed"} =>
            /\ calls[c].pc = "raised"
            /\ calls[c].error = IF calls[c].page = "fetch_failed"
                                THEN "TransportError" ELSE "StructuralParseError"
            /\ calls[c].rtype = "none"
            /\ calls[c].results = <<>>
            /\ calls[c].urls = <<>>
            /\ Attempted(c) = {}

\* an advanced search whose search page did not parse, and a homepage fetch
\* whose request failed
C6_Witness ==
    \E c, d \in Calls :
        /\ c \in AdvancedCalls /\ calls[c].page = "parse_failed"
        /\ calls[d].kind \in {"fetch_homepage", "async_fetch_homepage"}
        /\ calls[d].page = "fetch_failed"

BasicCalls == {c \in Calls : calls[c].kind \in {"search", "async_search"} /\ ~calls[c].advanced}

C9_ResultsAreParsedArticles ==
    \A c \in AdvancedCalls :
        calls[c].pc = "returned" =>
            /\ calls[c].rtype = "AdvancedSearchResults"
            /\ \A i \in DOMAIN calls[c].results :
                  /\ calls[c].results[i] # None
                  /\ calls[c].results[i] \in InState(c, "ParseSucceeded") \cap Attempted(c)
            /\ \A i, j \in DOMAIN calls[c].results :
                  calls[c].results[i] = calls[c].results[j] => i = j
            /\ InState(c, "ParseSucceeded") \subseteq Range(calls[c].results)

\* an async_search returned one article of two, the other having failed to parse
C9_Witness ==
    \E c \in AdvancedCalls :
        /\ calls[c].kind = "async_search" /\ calls[c].pc = "returned"
        /\ InState(c, "ParseFailed") # {}
        /\ Len(calls[c].results) = 1

\* C10: no article URL of an advanced search is requested more than once.
C10_NoRetry ==
    \A c \in AdvancedCalls : \A u \in DOMAIN calls[c].reqs : calls[c].reqs[u] <= 1

\* a batch is over with one URL whose fetch failed and one whose parse failed
C10_Witness ==
    \E c \in AdvancedCalls :
        /\ calls[c].kind = "async_search" /\ Settled(c)
        /\ InState(c, "FetchFailed") # {}
        /\ InState(c, "ParseFailed") # {}
\* the slots held by the per-URL tasks that entered the semaphore and have
\* not ended
SlotsHeld == Cardinality(InFlight)

\* C11: every slot a task acquired is released when the task ends, by a
\* parsed article, a failed parse or a failed fetch alike: the free slots
\* plus the slots held by running tasks are always the cap, so once no task
\* runs the semaphore is back at the cap.
C11_SlotsConserved ==
    engine = "ready" => sem_value + SlotsHeld = _semaphore_limit

\* two batches have ended, each with a failed fetch, and every slot is free
C11_Witness ==
    /\ engine = "ready"
    /\ \A c \in Calls :
          /\ calls[c].kind = "async_search" /\ Settled(c)
          /\ InState(c, "FetchFailed") # {}
    /\ sem_value = _semaphore_limit
Terminal == {"ParseSucceeded", "FetchFailed", "ParseFailed"}

\* C13: an article URL moves only Pending -> Fetching -> {ParseSucceeded,
\* FetchFailed, ParseFailed}: a task enters Fetching only from Pending and
\* only by taking a free semaphore slot, a URL is ParseSucceeded or
\* ParseFailed only when its response arrived without error, and nothing
\* leaves a terminal state.
C13_UrlStateMachine ==
    [][ \A c \in Calls :
          /\ calls[c].st # <<>> =>
                /\ DOMAIN calls'[c].st = DOMAIN calls[c].st
                /\ \A u \in DOMAIN calls[c].st :
                      calls'[c].st[u] # calls[c].st[u] =>
                          \/ /\ calls[c].st[u] = "Pending"
                             /\ calls'[c].st[u] = "Fetching"
                             /\ calls[c].kind = "async_search" =>
                                   (sem_value > 0 /\ sem_value' = sem_value - 1)
                          \/ /\ calls[c].st[u] = "Fetching"
                             /\ calls'[c].st[u] \in Terminal
          /\ calls[c].st = <<>> =>
                \A u \in DOMAIN calls'[c].st :
                    /\ calls'[c].st[u] \notin Terminal
                    /\ calls'[c].kind = "async_search" => calls'[c].st[u] # "Fetching"
          /\ \A u \in DOMAIN calls'[c].st :
                /\ calls'[c].st[u] \in {"ParseSucceeded", "ParseFailed"} =>
                      calls'[c].resp[u] = "ok"
                /\ calls'[c].st[u] = "FetchFailed" => calls'[c].resp[u] = "error"
                /\ calls'[c].st[u] \in {"Unqueued", "Pending", "Fetching"} =>
                      calls'[c].resp[u] = "none"
      ]_vars

\* a batch in which the three terminal states were all reached
C13_Witness ==
    \E c, d \in Calls :
        /\ calls[c].kind = "async_search" /\ calls[d].kind = "async_search"
        /\ InState(c, "ParseSucceeded") # {} /\ InState(c, "FetchFailed") # {}
        /\ InState(d, "ParseFailed") # {}
SyncCalls == {c \in Calls : calls[c].kind = "search"}

\* the HTTP requests of one call that are in flight
RequestsInFlight(c) ==
    (IF calls[c].pc = "primary" THEN 1 ELSE 0) + Cardinality(InState(c, "Fetching"))

\* C14: the blocking search has at most one HTTP request in flight: no
\* article is requested before the search page has arrived, and the article
\* URLs are requested in input order, each only after the one before it has
\* reached a terminal state.
C14_BlockingIsSequential ==
    \A c \in SyncCalls :
        /\ RequestsInFlight(c) <= 1
        /\ calls[c].pc = "primary" => Attempted(c) = {}
        /\ \A i, j \in DOMAIN calls[c].urls :
              (i < j /\ calls[c].reqs[calls[c].urls[j]] >= 1) =>
                  calls[c].st[calls[c].urls[i]] \in Terminal

\* the second article of a blocking search is in flight
C14_Witness ==
    \E c \in SyncCalls :
        /\ Len(calls[c].urls) >= 2
        /\ calls[c].st[calls[c].urls[2]] = "Fetching"
AsyncAdvancedCalls == {c \in AdvancedCalls : calls[c].kind = "async_search"}

\* C15: whatever the order in which the tasks of an async_search end, the
\* returned results are the successfully parsed URLs of urls[:limit] in
\* input order: the article of URL i precedes the article of URL j for i < j.
C15_ResultsInInputOrder ==
    \A c \in AsyncAdvancedCalls :
        calls[c].pc = "returned" =>
            /\ \A i, j \in DOMAIN calls[c].results :
                  i < j => calls[c].results[i] < calls[c].results[j]
            /\ Range(calls[c].results) = InState(c, "ParseSucceeded")

\* the second task ended before the first and both articles were returned
C15_Witness ==
    \E c \in AsyncAdvancedCalls :
        /\ calls[c].pc = "returned"
        /\ calls[c].completed = <<2, 1>>
        /\ calls[c].results = <<1, 2>>
\* C16: when an async_search with advanced=true is over, by a return or by
\* an exception, none of its tasks is still waiting for a slot or in flight.
C16_NoTaskOutlivesCall ==
    \A c \in AsyncAdvancedCalls :
        calls[c].pc \in {"returned", "raised"} =>
            InState(c, "Pending") \cup InState(c, "Fetching") = {}

\* C17: a blocking search and an async_search that saw the same search page,
\* the same limit and the same outcome for every article URL end alike: both
\* raise or both return, and then with the same results and total_results.
C17_VariantsAgree ==
    \A c \in SyncCalls, d \in AsyncAdvancedCalls :
        ( /\ calls[c].advanced
          /\ calls[c].pc \in {"returned", "raised"}
          /\ Settled(d)
          /\ calls[c].page = calls[d].page
          /\ calls[c].cards = calls[d].cards
          /\ calls[c].limit = calls[d].limit
          /\ \A u \in DOMAIN calls[c].st :
                calls[c].st[u] \in Terminal => calls[d].st[u] = calls[c].st[u] )
        => /\ calls[c].pc = calls[d].pc
           /\ calls[c].pc = "returned" =>
                 /\ calls[c].results = calls[d].results
                 /\ calls[c].total_results = calls[d].total_results

\* C18: whatever integer the limit is, zero and negative included, an
\* advanced search attempts at most max(limit, 0) article URLs.
C18_AttemptsAtMostLimit ==
    \A c \in AdvancedCalls : Cardinality(Attempted(c)) <= Max(calls[c].limit, 0)
\* C12: under fair scheduling, and with every request ending, every
\* async_search with advanced=true that was started ends, by a return or an
\* exception, with every URL it queued in a terminal state; no URL waits for
\* a slot for ever, also when more URLs are queued than the cap.
C12_AsyncSearchTerminates ==
    \A c \in Calls :
        (calls[c].kind = "async_search" /\ calls[c].advanced /\ calls[c].pc = "primary")
            ~> (Settled(c) /\ \A u \in Range(calls[c].urls) : calls[c].st[u] \in Terminal)

\* a batch of two URLs under a cap of one has ended with both URLs terminal
C12_Witness ==
    \E c \in AsyncAdvancedCalls :
        /\ _semaphore_limit = 1
        /\ Len(calls[c].urls) = 2
        /\ Settled(c)
        /\ \A u \in Range(calls[c].urls) : calls[c].st[u] \in Terminal
====
